---- MODULE Spec2Model ----
(***************************************************************************)
(* Model of the clinic-management backend: the FastAPI handlers of         *)
(* src/main.py over the SQLAlchemy models of src/models.py, the SQLite     *)
(* engine of src/database.py and the token functions of src/auth.py.       *)
(***************************************************************************)
EXTENDS Integers, FiniteSets, Sequences, TLC

(***************************************************************************)
(* Bounds of the model.                                                    *)
(***************************************************************************)
MaxRows == 4        \* rows of clinics, doctors, patients and consultations together
MaxUsers == 2       \* rows of users
MaxTicks == 3
MaxTtl == 2

\* The ids a table assigns and a request names.
Ids == {1, 2}

Mobiles == {"m1", "m2"}
Emails == {"e1", "e2"}
Statuses == {"active", "inactive"}
Usernames == {"alice", "bob"}
Workers == {"w1", "w2"}

Unset == "unset"
Null == "null"

VARIABLES
    clinics,        \* table clinics: clinic_id -> row
    doctors,        \* table doctors: doctor_id -> row
    patients,       \* table patients: patient_id -> row
    consultations,  \* table patients_consultations: consultation_id -> row
    users,          \* table users: user_id -> row
    now,            \* the clock, in whole seconds
    held,           \* the bearer token the client holds
    issued,         \* the last call of create_access_token: its instant and arguments
    pending         \* per worker: the request between its reads and its commit

vars == <<clinics, doctors, patients, consultations, users, now, held, issued, pending>>
store == <<clinics, doctors, patients, consultations, users>>

(***************************************************************************)
(* The persistence layer.                                                  *)
(***************************************************************************)
Max(S) == CHOOSE x \in S : \A y \in S : y <= x

\* INTEGER PRIMARY KEY of SQLite without AUTOINCREMENT: one more than the
\* largest id in the table.
NextId(table) == IF DOMAIN table = {} THEN 1 ELSE Max(DOMAIN table) + 1

Insert(table, row) == [i \in DOMAIN table \cup {NextId(table)} |->
                          IF i \in DOMAIN table THEN table[i] ELSE row]

Remove(table, id) == [i \in DOMAIN table \ {id} |-> table[i]]

\* The engine is created without PRAGMA foreign_keys=ON, and SQLite leaves
\* foreign keys unenforced unless it is set.
ForeignKeysEnforced == FALSE

\* unique=True columns: another row holds the value already.
Taken(table, field, value, self) ==
    \E i \in DOMAIN table : i # self /\ table[i][field] = value

\* What Session.delete(parent) does at flush for a one-to-many relationship
\* without a delete cascade: it loads the children and sets their foreign key
\* to NULL, which the nullable=False columns reject with an IntegrityError.
ClinicChildren(c) ==
    \/ \E i \in DOMAIN doctors : doctors[i].clinic_id = c
    \/ \E i \in DOMAIN patients : patients[i].clinic_id = c
    \/ \E i \in DOMAIN consultations : consultations[i].clinic_id = c

DoctorChildren(d) ==
    \/ \E i \in DOMAIN patients : patients[i].doctor_id = d
    \/ \E i \in DOMAIN consultations : consultations[i].doctor_id = d

PatientChildren(p) ==
    \E i \in DOMAIN consultations : consultations[i].patient_id = p

(***************************************************************************)
(* Responses: the status code and detail of the HTTPException raised, or   *)
(* the status code of the success.                                         *)
(***************************************************************************)
Response(status, text, n) == [status |-> status, detail |-> <<text, n>>]

Created(id) == Response(201, "created", id)
Ok(id) == Response(200, "ok", id)
NoContent == Response(204, "no content", 0)
InternalServerError == Response(500, "Internal Server Error", 0)
UnexpectedError == Response(500, "An unexpected error occurred", 0)
MobileExists == Response(400, "Mobile number already exists. Please use a different number.", 0)
EmailExists == Response(400, "Email already exists. Please use a different email.", 0)
ConstraintViolation == Response(400, "Database constraint violation", 0)
ClinicNotFound(c) == Response(404, "Clinic with id {clinic_id} not found", c)
ClinicDoesNotExist(c) == Response(404, "Clinic id {clinic_id} does not exist", c)
ClinicHasDoctors(n) == Response(400, "Cannot delete clinic. It has {doctor_count} doctor(s). Delete them first.", n)
ClinicHasPatients(n) == Response(400, "Cannot delete clinic. It has {patient_count} patient(s). Delete them first.", n)
ClinicHasRelated == Response(400, "Cannot delete clinic due to existing related records", 0)
InvalidClinicReference == Response(400, "Invalid clinic reference", 0)
NoDoctorsFound(c) == Response(404, "No doctors found for clinic with id {clinic_id}", c)
DoctorNotFound(d) == Response(404, "Doctor with id {doctor_id} not found", d)
DoctorHasPatients(n) == Response(400, "Cannot delete doctor. They have {patient_count} patient(s). Reassign or delete them first.", n)
DoctorHasConsultations(n) == Response(400, "Cannot delete doctor. They have {consultation_count} consultation(s) in history.", n)
DoctorHasRelated == Response(400, "Cannot delete doctor due to existing related records", 0)
DoctorNotInClinic(d) == Response(404, "Doctor with id {patient.doctor_id} not found in this clinic", d)
InvalidDoctorReference == Response(400, "Invalid doctor reference", 0)
NoPatientsFound(c) == Response(404, "No Patients found for clinic with id {clinic_id}", c)
PatientRowNotFound == Response(404, "Doctor with id {patient} not found", 0)
PatientNotFound(p) == Response(404, "Patient with id {patient_id} not found", p)
DoctorNotActive == Response(400, "Doctor is not active. Current status: {doctor.status}", 0)
PatientNotActive == Response(400, "Patient is not active. Current status: {patient.status}", 0)
InvalidReference == Response(400, "Invalid reference to clinic, doctor, or patient", 0)
\* A handler's reads found nothing to refuse: it goes on to its write.
Proceed == Response(0, "proceed", 0)

(***************************************************************************)
(* A handler's outcome: the response it returns and the rows of the table  *)
(* it writes, as they are after the request (the session is rolled back   *)
(* or closed without commit on every error).                               *)
(***************************************************************************)
Outcome(response, rows) == [resp |-> response, rows |-> rows]

Succeeded(o) == o.resp.status \in {200, 201, 204}

\* The handler actions below are the steps of the requests that write, for
\* every body the request can carry: a request that writes nothing leaves
\* every variable as it was, which is a stuttering step of the specification.
\* What every request returns, refused or not, is the handler's _outcomes.

NoToken == [kind |-> "none"]

Idle == [op |-> "idle"]

RowCount == Cardinality(DOMAIN clinics) + Cardinality(DOMAIN doctors)
            + Cardinality(DOMAIN patients) + Cardinality(DOMAIN consultations)

AllIdle == \A w \in Workers : pending[w] = Idle

Init ==
    /\ clinics = <<>>
    /\ doctors = <<>>
    /\ patients = <<>>
    /\ consultations = <<>>
    /\ users = <<>>
    /\ now = 0
    /\ held = NoToken
    /\ issued = NoToken
    /\ pending = [w \in Workers |-> Idle]

(***************************************************************************)
(* Clinics.                                                                *)
(***************************************************************************)
ClinicIds == Ids
ClinicRows == [mobile : Mobiles]
ClinicUpdates == [mobile : Mobiles \cup {Unset, Null}]

create_clinic_commit(row) ==
    IF Taken(clinics, "mobile", row.mobile, 0)
    THEN {Outcome(MobileExists, clinics)}
    ELSE {Outcome(Created(NextId(clinics)), Insert(clinics, row))}

create_clinic_outcomes(row) == create_clinic_commit(row)

create_clinic(row) ==
    /\ AllIdle
    /\ \E o \in create_clinic_outcomes(row) :
           /\ Succeeded(o)
           /\ clinics' = o.rows
           /\ DOMAIN o.rows \subseteq ClinicIds /\ RowCount < MaxRows
    /\ UNCHANGED <<doctors, patients, consultations, users, now, held, issued, pending>>

update_clinic_reads(c) ==
    IF c \notin DOMAIN clinics THEN ClinicNotFound(c) ELSE Proceed

update_clinic_commit(c, upd) ==
    IF upd.mobile = Unset THEN {Outcome(Ok(c), clinics)}
    ELSE IF upd.mobile = Null \/ Taken(clinics, "mobile", upd.mobile, c)
    THEN {Outcome(MobileExists, clinics)}
    ELSE {Outcome(Ok(c), [clinics EXCEPT ![c].mobile = upd.mobile])}

update_clinic_outcomes(c, upd) ==
    IF update_clinic_reads(c) = Proceed THEN update_clinic_commit(c, upd)
    ELSE {Outcome(update_clinic_reads(c), clinics)}

update_clinic(c) ==
    /\ AllIdle
    /\ update_clinic_reads(c) = Proceed
    /\ \E upd \in ClinicUpdates : \E o \in update_clinic_commit(c, upd) :
           Succeeded(o) /\ clinics' = o.rows
    /\ UNCHANGED <<doctors, patients, consultations, users, now, held, issued, pending>>

\* delete_clinic without the count of the clinic's doctors.
delete_clinic_reads_no_doctor_count(c) ==
    LET patient_count == Cardinality({i \in DOMAIN patients : patients[i].clinic_id = c})
    IN  IF c \notin DOMAIN clinics THEN ClinicNotFound(c)
        ELSE IF patient_count > 0 THEN ClinicHasPatients(patient_count)
        ELSE Proceed

delete_clinic_reads(c) ==
    LET doctor_count == Cardinality({i \in DOMAIN doctors : doctors[i].clinic_id = c})
        patient_count == Cardinality({i \in DOMAIN patients : patients[i].clinic_id = c})
    IN  IF c \notin DOMAIN clinics THEN ClinicNotFound(c)
        ELSE IF doctor_count > 0 THEN ClinicHasDoctors(doctor_count)
        ELSE IF patient_count > 0 THEN ClinicHasPatients(patient_count)
        ELSE Proceed

delete_clinic_commit(c) ==
    IF ClinicChildren(c) THEN {Outcome(ClinicHasRelated, clinics)}
    ELSE {Outcome(NoContent, Remove(clinics, c))}

delete_clinic_outcomes(c) ==
    IF delete_clinic_reads(c) = Proceed THEN delete_clinic_commit(c)
    ELSE {Outcome(delete_clinic_reads(c), clinics)}

delete_clinic(c) ==
    /\ AllIdle
    /\ delete_clinic_reads(c) = Proceed
    /\ \E o \in delete_clinic_commit(c) : Succeeded(o) /\ clinics' = o.rows
    /\ UNCHANGED <<doctors, patients, consultations, users, now, held, issued, pending>>

(***************************************************************************)
(* Doctors.                                                                *)
(***************************************************************************)
DoctorIds == Ids
DoctorRows == [mobile : Mobiles, email : Emails, status : Statuses]
DoctorUpdates == [mobile : Mobiles \cup {Unset, Null}, email : Emails \cup {Unset},
                  status : Statuses \cup {Unset, Null}]

\* The constraints of table doctors an INSERT or UPDATE violates, as the
\* handler reports each: the message of the IntegrityError names one column.
DoctorConflicts(mobile, email, self) ==
    (IF mobile = Null \/ (mobile # Unset /\ Taken(doctors, "mobile", mobile, self))
        THEN {MobileExists} ELSE {})
    \cup (IF email # Unset /\ Taken(doctors, "email", email, self)
        THEN {EmailExists} ELSE {})

\* create_doctor without the lookup of the clinic.
create_doctor_reads_any_clinic(c) == Proceed

create_doctor_reads(c) ==
    IF c \notin DOMAIN clinics THEN ClinicNotFound(c) ELSE Proceed

create_doctor_commit(c, row) ==
    IF DoctorConflicts(row.mobile, row.email, 0) # {}
    THEN {Outcome(r, doctors) : r \in DoctorConflicts(row.mobile, row.email, 0)}
    ELSE IF ForeignKeysEnforced /\ c \notin DOMAIN clinics
    THEN {Outcome(InvalidClinicReference, doctors)}
    ELSE {Outcome(Created(NextId(doctors)),
                  Insert(doctors, [mobile |-> row.mobile, email |-> row.email,
                                   status |-> row.status, clinic_id |-> c]))}

create_doctor_outcomes(c, row) ==
    IF create_doctor_reads(c) = Proceed THEN create_doctor_commit(c, row)
    ELSE {Outcome(create_doctor_reads(c), doctors)}

create_doctor(c) ==
    /\ AllIdle
    /\ create_doctor_reads(c) = Proceed
    /\ \E row \in DoctorRows : \E o \in create_doctor_commit(c, row) :
           /\ Succeeded(o)
           /\ doctors' = o.rows
           /\ DOMAIN o.rows \subseteq DoctorIds /\ RowCount < MaxRows
    /\ UNCHANGED <<clinics, patients, consultations, users, now, held, issued, pending>>

update_doctor_reads(c, d) ==
    IF c \notin DOMAIN clinics THEN ClinicDoesNotExist(c)
    ELSE IF ~(d \in DOMAIN doctors /\ doctors[d].clinic_id = c) THEN NoDoctorsFound(c)
    ELSE Proceed

\* setattr for each key of model_dump(exclude_unset=True).
Patch(row, field, value) == IF value = Unset THEN row ELSE [row EXCEPT ![field] = value]

\* The row the handler returns is validated against its response_model after
\* the commit: status is a str there and nullable in the table, and a row that
\* fails the validation is answered with 500.
Serialized(row, response) == IF row.status = Null THEN InternalServerError ELSE response

update_doctor_commit(d, upd) ==
    IF DoctorConflicts(upd.mobile, upd.email, d) # {}
    THEN {Outcome(r, doctors) : r \in DoctorConflicts(upd.mobile, upd.email, d)}
    ELSE LET row == Patch(Patch(Patch(doctors[d], "mobile", upd.mobile), "email", upd.email),
                          "status", upd.status)
         IN  {Outcome(Serialized(row, Ok(d)), [doctors EXCEPT ![d] = row])}

update_doctor_outcomes(c, d, upd) ==
    IF update_doctor_reads(c, d) = Proceed THEN update_doctor_commit(d, upd)
    ELSE {Outcome(update_doctor_reads(c, d), doctors)}

update_doctor(c, d) ==
    /\ AllIdle
    /\ update_doctor_reads(c, d) = Proceed
    /\ \E upd \in DoctorUpdates : \E o \in update_doctor_commit(d, upd) : doctors' = o.rows
    /\ UNCHANGED <<clinics, patients, consultations, users, now, held, issued, pending>>

\* delete_doctor without the count of the doctor's consultations.
delete_doctor_reads_no_consultation_count(c, d) ==
    LET patient_count == Cardinality({i \in DOMAIN patients : patients[i].doctor_id = d})
    IN  IF c \notin DOMAIN clinics THEN ClinicDoesNotExist(c)
        ELSE IF ~(d \in DOMAIN doctors /\ doctors[d].clinic_id = c) THEN DoctorNotFound(d)
        ELSE IF patient_count > 0 THEN DoctorHasPatients(patient_count)
        ELSE Proceed

delete_doctor_reads(c, d) ==
    LET patient_count == Cardinality({i \in DOMAIN patients : patients[i].doctor_id = d})
        consultation_count ==
            Cardinality({i \in DOMAIN consultations : consultations[i].doctor_id = d})
    IN  IF c \notin DOMAIN clinics THEN ClinicDoesNotExist(c)
        ELSE IF ~(d \in DOMAIN doctors /\ doctors[d].clinic_id = c) THEN DoctorNotFound(d)
        ELSE IF patient_count > 0 THEN DoctorHasPatients(patient_count)
        ELSE IF consultation_count > 0 THEN DoctorHasConsultations(consultation_count)
        ELSE Proceed

delete_doctor_commit(d) ==
    IF DoctorChildren(d) THEN {Outcome(DoctorHasRelated, doctors)}
    ELSE {Outcome(NoContent, Remove(doctors, d))}

delete_doctor_outcomes(c, d) ==
    IF delete_doctor_reads(c, d) = Proceed THEN delete_doctor_commit(d)
    ELSE {Outcome(delete_doctor_reads(c, d), doctors)}

delete_doctor(c, d) ==
    /\ AllIdle
    /\ delete_doctor_reads(c, d) = Proceed
    /\ \E o \in delete_doctor_commit(d) : Succeeded(o) /\ doctors' = o.rows
    /\ UNCHANGED <<clinics, patients, consultations, users, now, held, issued, pending>>

(***************************************************************************)
(* Patients.                                                               *)
(***************************************************************************)
PatientIds == Ids
PatientRows == [mobile : Mobiles, status : Statuses]
\* doctor_id of a PatientUpdate: {} when the field is not sent, {d} when it is.
PatientUpdates == [mobile : Mobiles \cup {Unset, Null}, status : Statuses \cup {Unset, Null},
                   doctor_id : {{}} \cup {{d} : d \in DoctorIds}]

\* d is the doctor_id of the PatientCreate body, row the rest of it.
create_patient_reads(c, d) ==
    IF c \notin DOMAIN clinics THEN ClinicNotFound(c)
    ELSE IF ~(d \in DOMAIN doctors /\ doctors[d].clinic_id = c) THEN DoctorNotInClinic(d)
    ELSE Proceed

create_patient_commit(c, d, row) ==
    IF Taken(patients, "mobile", row.mobile, 0)
    THEN {Outcome(MobileExists, patients)}
    ELSE IF ForeignKeysEnforced
            /\ (c \notin DOMAIN clinics \/ d \notin DOMAIN doctors)
    THEN {Outcome(InvalidDoctorReference, patients)}
    ELSE {Outcome(Created(NextId(patients)),
                  Insert(patients, [mobile |-> row.mobile, status |-> row.status,
                                    clinic_id |-> c, doctor_id |-> d]))}

create_patient_outcomes(c, d, row) ==
    IF create_patient_reads(c, d) = Proceed THEN create_patient_commit(c, d, row)
    ELSE {Outcome(create_patient_reads(c, d), patients)}

create_patient(c, d) ==
    /\ AllIdle
    /\ create_patient_reads(c, d) = Proceed
    /\ \E row \in PatientRows : \E o \in create_patient_commit(c, d, row) :
           /\ Succeeded(o)
           /\ patients' = o.rows
           /\ DOMAIN o.rows \subseteq PatientIds /\ RowCount < MaxRows
    /\ UNCHANGED <<clinics, doctors, consultations, users, now, held, issued, pending>>

update_patient_reads(c, p) ==
    IF c \notin DOMAIN clinics THEN ClinicDoesNotExist(c)
    ELSE IF ~(p \in DOMAIN patients /\ patients[p].clinic_id = c) THEN NoPatientsFound(c)
    ELSE Proceed

\* update_patient moving the patient to the clinic of the doctor it is given.
update_patient_commit_follows_doctor(p, upd) ==
    IF \/ upd.mobile = Null
       \/ (upd.mobile # Unset /\ Taken(patients, "mobile", upd.mobile, p))
    THEN {Outcome(InternalServerError, patients)}
    ELSE LET d == IF upd.doctor_id = {} THEN patients[p].doctor_id
                  ELSE CHOOSE x \in upd.doctor_id : TRUE
             row == [Patch(Patch(patients[p], "mobile", upd.mobile), "status", upd.status)
                         EXCEPT !.doctor_id = d,
                                !.clinic_id = IF d \in DOMAIN doctors
                                              THEN doctors[d].clinic_id ELSE @]
         IN  {Outcome(Serialized(row, Ok(p)), [patients EXCEPT ![p] = row])}

\* The commit of update_patient is outside any try: an IntegrityError leaves
\* the handler as an unhandled exception, and get_db closes the session.
update_patient_commit(p, upd) ==
    IF \/ upd.mobile = Null
       \/ (upd.mobile # Unset /\ Taken(patients, "mobile", upd.mobile, p))
       \/ (ForeignKeysEnforced /\ \E d \in upd.doctor_id : d \notin DOMAIN doctors)
    THEN {Outcome(InternalServerError, patients)}
    ELSE LET row == [Patch(Patch(patients[p], "mobile", upd.mobile), "status", upd.status)
                         EXCEPT !.doctor_id = IF upd.doctor_id = {} THEN @
                                              ELSE CHOOSE d \in upd.doctor_id : TRUE]
         IN  {Outcome(Serialized(row, Ok(p)), [patients EXCEPT ![p] = row])}

update_patient_outcomes(c, p, upd) ==
    IF update_patient_reads(c, p) = Proceed THEN update_patient_commit(p, upd)
    ELSE {Outcome(update_patient_reads(c, p), patients)}

update_patient(c, p) ==
    /\ AllIdle
    /\ update_patient_reads(c, p) = Proceed
    /\ \E upd \in PatientUpdates : \E o \in update_patient_commit(p, upd) : patients' = o.rows
    /\ UNCHANGED <<clinics, doctors, consultations, users, now, held, issued, pending>>

delete_patient_reads(c, p) ==
    IF ~(\E i \in DOMAIN patients : patients[i].clinic_id = c) THEN ClinicDoesNotExist(c)
    ELSE IF ~(p \in DOMAIN patients /\ patients[p].clinic_id = c) THEN PatientRowNotFound
    ELSE Proceed

\* delete_patient without the unit of work's update of the consultations of
\* the deleted patient.
delete_patient_commit_no_nullify(p) ==
    {Outcome(NoContent, Remove(patients, p))}

\* No try around the delete either.
delete_patient_commit(p) ==
    IF PatientChildren(p) THEN {Outcome(InternalServerError, patients)}
    ELSE {Outcome(NoContent, Remove(patients, p))}

delete_patient_outcomes(c, p) ==
    IF delete_patient_reads(c, p) = Proceed THEN delete_patient_commit(p)
    ELSE {Outcome(delete_patient_reads(c, p), patients)}

delete_patient(c, p) ==
    /\ AllIdle
    /\ delete_patient_reads(c, p) = Proceed
    /\ \E o \in delete_patient_commit(p) : Succeeded(o) /\ patients' = o.rows
    /\ UNCHANGED <<clinics, doctors, consultations, users, now, held, issued, pending>>

(***************************************************************************)
(* Consultations.                                                          *)
(***************************************************************************)
\* create_doctor_patient_consultation without the lookup of the doctor.
create_doctor_patient_consultation_reads_any_doctor(c, d, p) ==
    IF c \notin DOMAIN clinics THEN ClinicNotFound(c)
    ELSE IF ~(p \in DOMAIN patients /\ patients[p].clinic_id = c) THEN PatientNotFound(p)
    ELSE IF patients[p].status # "active" THEN PatientNotActive
    ELSE Proceed

\* create_doctor_patient_consultation without the check of the doctor's status.
create_doctor_patient_consultation_reads_any_doctor_status(c, d, p) ==
    IF c \notin DOMAIN clinics THEN ClinicNotFound(c)
    ELSE IF ~(d \in DOMAIN doctors /\ doctors[d].clinic_id = c) THEN DoctorNotFound(d)
    ELSE IF ~(p \in DOMAIN patients /\ patients[p].clinic_id = c) THEN PatientNotFound(p)
    ELSE IF patients[p].status # "active" THEN PatientNotActive
    ELSE Proceed

\* create_doctor_patient_consultation without the check of the patient's status.
create_doctor_patient_consultation_reads_any_patient_status(c, d, p) ==
    IF c \notin DOMAIN clinics THEN ClinicNotFound(c)
    ELSE IF ~(d \in DOMAIN doctors /\ doctors[d].clinic_id = c) THEN DoctorNotFound(d)
    ELSE IF ~(p \in DOMAIN patients /\ patients[p].clinic_id = c) THEN PatientNotFound(p)
    ELSE IF doctors[d].status # "active" THEN DoctorNotActive
    ELSE Proceed

create_doctor_patient_consultation_reads(c, d, p) ==
    IF c \notin DOMAIN clinics THEN ClinicNotFound(c)
    ELSE IF ~(d \in DOMAIN doctors /\ doctors[d].clinic_id = c) THEN DoctorNotFound(d)
    ELSE IF ~(p \in DOMAIN patients /\ patients[p].clinic_id = c) THEN PatientNotFound(p)
    ELSE IF doctors[d].status # "active" THEN DoctorNotActive
    ELSE IF patients[p].status # "active" THEN PatientNotActive
    ELSE Proceed

create_doctor_patient_consultation_commit(c, d, p) ==
    IF ForeignKeysEnforced
       /\ (c \notin DOMAIN clinics \/ d \notin DOMAIN doctors \/ p \notin DOMAIN patients)
    THEN {Outcome(InvalidReference, consultations)}
    ELSE {Outcome(Created(NextId(consultations)),
                  Insert(consultations, [clinic_id |-> c, doctor_id |-> d, patient_id |-> p]))}

create_doctor_patient_consultation_outcomes(c, d, p) ==
    IF create_doctor_patient_consultation_reads(c, d, p) = Proceed
    THEN create_doctor_patient_consultation_commit(c, d, p)
    ELSE {Outcome(create_doctor_patient_consultation_reads(c, d, p), consultations)}

create_doctor_patient_consultation(c, d, p) ==
    /\ AllIdle
    /\ create_doctor_patient_consultation_reads(c, d, p) = Proceed
    /\ \E o \in create_doctor_patient_consultation_commit(c, d, p) :
           /\ Succeeded(o)
           /\ consultations' = o.rows
           /\ DOMAIN o.rows \subseteq Ids /\ RowCount < MaxRows
    /\ UNCHANGED <<clinics, doctors, patients, users, now, held, issued, pending>>

(***************************************************************************)
(* The API with every request run to its end before the next starts.       *)
(***************************************************************************)
Next ==
    \/ \E row \in ClinicRows : create_clinic(row)
    \/ \E c \in ClinicIds : update_clinic(c)
    \/ \E c \in ClinicIds : delete_clinic(c)
    \/ \E c \in ClinicIds : create_doctor(c)
    \/ \E c \in ClinicIds, d \in DoctorIds : update_doctor(c, d)
    \/ \E c \in ClinicIds, d \in DoctorIds : delete_doctor(c, d)
    \/ \E c \in ClinicIds, d \in DoctorIds : create_patient(c, d)
    \/ \E c \in ClinicIds, p \in PatientIds : update_patient(c, p)
    \/ \E c \in ClinicIds, p \in PatientIds : delete_patient(c, p)
    \/ \E c \in ClinicIds, d \in DoctorIds, p \in PatientIds :
           create_doctor_patient_consultation(c, d, p)

Spec == Init /\ [][Next]_vars

(***************************************************************************)
(* Tokens (src/auth.py).  A token is the payload and its HS256 signature;  *)
(* the signature is modelled as the pair of the key and the payload it was *)
(* computed over, so that two signatures are equal exactly when both are.  *)
(***************************************************************************)
SECRET_KEY == "your-secret-key-here-change-this-in-production"
DefaultExpireSeconds == 900

Roles == {"user", "admin"}

Sign(payload, key) == [key |-> key, signed |-> payload]

\* jwt.encode: exp is written as whole seconds.
jwt_encode(payload, key) == [kind |-> "jwt", payload |-> payload, sig |-> Sign(payload, key)]

JWTError == [error |-> "JWTError"]

\* jwt.decode at clock reading t: the three-segment form, then the signature,
\* then the exp claim, which is refused when exp < t.
jwt_decode(token, key, t) ==
    IF token.kind # "jwt" THEN JWTError
    ELSE IF token.sig # Sign(token.payload, key) THEN JWTError
    ELSE IF token.payload.exp < t THEN JWTError
    ELSE token.payload

\* expires_delta is {} for None and {n} for timedelta(seconds=n); a timedelta
\* of zero is false in "if expires_delta:".
create_access_token(data, expires_delta, t) ==
    LET expire == IF expires_delta # {} /\ expires_delta # {0}
                  THEN t + (CHOOSE n \in expires_delta : TRUE)
                  ELSE t + DefaultExpireSeconds
    IN  jwt_encode([sub |-> data.sub, role |-> data.role, exp |-> expire], SECRET_KEY)

CouldNotValidate == Response(401, "Could not validate credentials", 0)
NotAuthenticated == Response(401, "Not authenticated", 0)
UserNotFound == Response(401, "User not Found", 0)
InactiveUser == Response(400, "Inactive user", 0)
NotEnoughPermissions == Response(403, "Not enough permissions. Admin access required.", 0)

IsResponse(x) == "status" \in DOMAIN x

\* The decoded payload, or the response of the HTTPException raised.  A
\* payload without a subject has sub = Null.
verify_token(token, t) ==
    LET payload == jwt_decode(token, SECRET_KEY, t)
    IN  IF payload = JWTError THEN CouldNotValidate
        ELSE IF payload.sub = Null THEN CouldNotValidate
        ELSE payload

\* get_current_user without the check of is_active.
get_current_user_any_activity(token, t) ==
    IF token = NoToken THEN NotAuthenticated
    ELSE LET token_data == verify_token(token, t)
             found == {i \in DOMAIN users : users[i].username = token_data.sub}
         IN  IF IsResponse(token_data) THEN token_data
             ELSE IF found = {} THEN UserNotFound
             ELSE users[CHOOSE i \in found : \A j \in found : i <= j]

\* The user row, or the response of the HTTPException raised.  oauth2_scheme
\* answers a request without a bearer token before verify_token is called.
get_current_user(token, t) ==
    IF token = NoToken THEN NotAuthenticated
    ELSE LET token_data == verify_token(token, t)
             found == {i \in DOMAIN users : users[i].username = token_data.sub}
         IN  IF IsResponse(token_data) THEN token_data
             ELSE IF found = {} THEN UserNotFound
             ELSE IF ~users[CHOOSE i \in found : \A j \in found : i <= j].is_active
             THEN InactiveUser
             ELSE users[CHOOSE i \in found : \A j \in found : i <= j]

\* require_admin deciding by the role claim of the token.
require_admin_role_of_token(token, t) ==
    LET current_user == get_current_user(token, t)
    IN  IF IsResponse(current_user) THEN current_user
        ELSE IF token.payload.role # "admin" THEN NotEnoughPermissions
        ELSE current_user

\* require_admin without the check of the role.
require_admin_any_role(token, t) == get_current_user(token, t)

require_admin(token, t) ==
    LET current_user == get_current_user(token, t)
    IN  IF IsResponse(current_user) THEN current_user
        ELSE IF current_user.role # "admin" THEN NotEnoughPermissions
        ELSE current_user

(***************************************************************************)
(* The client's token and the clock.                                       *)
(***************************************************************************)
Subjects == Usernames \cup {Null}
Deltas == {{}} \cup {{n} : n \in 0..MaxTtl}

\* A token is issued to the client.
issue(sub, role, expires_delta) ==
    /\ held' = create_access_token([sub |-> sub, role |-> role], expires_delta, now)
    /\ issued' = [at |-> now, data |-> [sub |-> sub, role |-> role], delta |-> expires_delta]
    /\ UNCHANGED <<store, now, pending>>

\* The client alters the signature segment of its token.
tamper_signature ==
    /\ held.kind = "jwt"
    /\ held' = [held EXCEPT !.sig.key = "altered"]
    /\ UNCHANGED <<store, now, issued, pending>>

\* The client rewrites a claim of the payload and keeps the signature.
tamper_payload(role) ==
    /\ held.kind = "jwt"
    /\ held' = [held EXCEPT !.payload.role = role]
    /\ UNCHANGED <<store, now, issued, pending>>

\* The client signs a payload with a key of its own.
forge(sub, role) ==
    /\ held' = jwt_encode([sub |-> sub, role |-> role, exp |-> now + DefaultExpireSeconds],
                          "guessed-key")
    /\ UNCHANGED <<store, now, issued, pending>>

\* The client sends something that is no JWT, or no token at all.
garble(kind) ==
    /\ held' = [kind |-> kind]
    /\ UNCHANGED <<store, now, issued, pending>>

\* The clock advances by a second, or by the default lifetime of a token.
Tick(seconds) ==
    /\ IF seconds = 1 THEN now % DefaultExpireSeconds < MaxTicks
                      ELSE now < DefaultExpireSeconds
    /\ now' = now + seconds
    /\ UNCHANGED <<store, held, issued, pending>>

NextToken ==
    \/ \E sub \in Subjects, role \in Roles, delta \in Deltas : issue(sub, role, delta)
    \/ tamper_signature
    \/ \E role \in Roles : tamper_payload(role)
    \/ \E sub \in Subjects, role \in Roles : forge(sub, role)
    \/ \E kind \in {"none", "malformed"} : garble(kind)
    \/ \E seconds \in {1, DefaultExpireSeconds} : Tick(seconds)

SpecToken == Init /\ [][NextToken]_vars

(***************************************************************************)
(* Users (register_user of src/main.py, the password functions of          *)
(* src/auth.py).  A password is its UTF-8 bytes.  bcrypt works on the      *)
(* first 72 bytes of a password: bcrypt.hashpw and bcrypt.checkpw ignore   *)
(* the bytes after them in the releases before 5.0 and raise ValueError    *)
(* for a longer password from 5.0 on.  A bcrypt hash is the bytes '$2b$',  *)
(* the salt and the digest; the digest is modelled as the bytes it is      *)
(* computed over, so that two digests are equal exactly when those are.    *)
(***************************************************************************)
MaxPasswordBytes == 72

Secret123 == <<115, 101, 99, 114, 101, 116, 49, 50, 51>>
Hunter2 == <<104, 117, 110, 116, 101, 114, 50>>
LongPassword(last) == [i \in 1..(MaxPasswordBytes + 1) |-> IF i <= MaxPasswordBytes THEN 97 ELSE last]

Passwords == {Secret123, Hunter2, LongPassword(120), LongPassword(121)}

Salts == {<<65>>, <<66>>}
Builds == {"truncates", "raises"}

Returned(value) == [raised |-> FALSE, value |-> value]
ValueError == [raised |-> TRUE, error |-> "ValueError"]

bcrypt_hashpw(password, salt) ==
    <<36, 50, 98, 36>> \o salt
        \o SubSeq(password, 1, IF Len(password) < MaxPasswordBytes THEN Len(password)
                               ELSE MaxPasswordBytes)

bcrypt_checkpw(password, hashed) == bcrypt_hashpw(password, <<hashed[5]>>) = hashed

hash_password(password, salt, build) ==
    IF Len(password) > MaxPasswordBytes /\ build = "raises" THEN ValueError
    ELSE Returned(bcrypt_hashpw(password, salt))

verify_password(plain_password, hashed_password, build) ==
    IF Len(plain_password) > MaxPasswordBytes /\ build = "raises" THEN ValueError
    ELSE Returned(bcrypt_checkpw(plain_password, hashed_password))

UsernameRegistered == Response(400, "Username already registered", 0)
EmailRegistered == Response(400, "Email already registered", 0)
UserEmailExists == Response(400, "Email already exists", 0)

UserCreates == [username : Usernames, email : Emails, password : Passwords]

register_user_reads(user) ==
    IF Taken(users, "username", user.username, 0) THEN UsernameRegistered
    ELSE IF Taken(users, "email", user.email, 0) THEN EmailRegistered
    ELSE Proceed

\* register_user storing the role of an administrator.
register_user_commit_as_admin(user, salt, build) ==
    LET hashed_pwd == hash_password(user.password, salt, build)
    IN  IF hashed_pwd.raised THEN {Outcome(UnexpectedError, users)}
        ELSE IF Taken(users, "email", user.email, 0) THEN {Outcome(UserEmailExists, users)}
        ELSE {Outcome(Created(NextId(users)),
                      Insert(users, [username |-> user.username, email |-> user.email,
                                     hashed_password |-> hashed_pwd.value,
                                     role |-> "admin", is_active |-> TRUE]))}

\* Only users.email is declared unique; role and is_active take the defaults
\* of the column.
register_user_commit(user, salt, build) ==
    LET hashed_pwd == hash_password(user.password, salt, build)
    IN  IF hashed_pwd.raised THEN {Outcome(UnexpectedError, users)}
        ELSE IF Taken(users, "email", user.email, 0) THEN {Outcome(UserEmailExists, users)}
        ELSE {Outcome(Created(NextId(users)),
                      Insert(users, [username |-> user.username, email |-> user.email,
                                     hashed_password |-> hashed_pwd.value,
                                     role |-> "user", is_active |-> TRUE]))}

register_user_outcomes(user) ==
    IF register_user_reads(user) = Proceed
    THEN UNION {register_user_commit(user, salt, build) : salt \in Salts, build \in Builds}
    ELSE {Outcome(register_user_reads(user), users)}

register_user(user) ==
    /\ AllIdle
    /\ register_user_reads(user) = Proceed
    /\ \E salt \in Salts, build \in Builds : \E o \in register_user_commit(user, salt, build) :
          /\ Succeeded(o)
          /\ Cardinality(DOMAIN o.rows) <= MaxUsers
          /\ users' = o.rows
    /\ UNCHANGED <<clinics, doctors, patients, consultations, now, held, issued, pending>>

(***************************************************************************)
(* Requests that carry the client's token: registration, the token and the *)
(* clock, and the clinic handlers.                                         *)
(***************************************************************************)
GateUsers == {user \in UserCreates : user.password = Secret123}

NextGate ==
    \/ \E user \in GateUsers : register_user(user)
    \/ \E sub \in Subjects, role \in Roles : issue(sub, role, {1})
    \/ tamper_signature
    \/ \E kind \in {"none", "malformed"} : garble(kind)
    \/ Tick(1)
    \/ \E row \in ClinicRows : create_clinic(row)
    \/ \E c \in ClinicIds : update_clinic(c)
    \/ \E c \in ClinicIds : delete_clinic(c)

SpecGate == Init /\ [][NextGate]_vars

(***************************************************************************)
(* Concurrent requests.  Each request runs in a worker with a session of   *)
(* its own (get_db); its queries read the committed rows, and the rows it  *)
(* adds or deletes reach the database at db.commit().  A request is two    *)
(* steps: its reads (begin), then its commit (end); the response of a      *)
(* request refused by its reads changes nothing and is no step.            *)
(***************************************************************************)
Begin(w, request) ==
    /\ pending[w] = Idle
    /\ pending' = [pending EXCEPT ![w] = request]

End(w, op) ==
    /\ pending[w].op = op
    /\ pending' = [pending EXCEPT ![w] = Idle]

register_user_begin(w, user) ==
    /\ register_user_reads(user) = Proceed
    /\ Begin(w, [op |-> "register_user", user |-> user])
    /\ UNCHANGED <<store, now, held, issued>>

register_user_end(w) ==
    /\ End(w, "register_user")
    /\ \E salt \in Salts, build \in Builds :
          \E o \in register_user_commit(pending[w].user, salt, build) :
          /\ Cardinality(DOMAIN o.rows) <= MaxUsers
          /\ users' = o.rows
    /\ UNCHANGED <<clinics, doctors, patients, consultations, now, held, issued>>

NextRegister ==
    \/ \E w \in Workers, user \in UserCreates : register_user_begin(w, user)
    \/ \E w \in Workers : register_user_end(w)

SpecRegister == Init /\ [][NextRegister]_vars

delete_clinic_begin(w, c) ==
    /\ delete_clinic_reads(c) = Proceed
    /\ Begin(w, [op |-> "delete_clinic", c |-> c])
    /\ UNCHANGED <<store, now, held, issued>>

delete_clinic_end(w) ==
    /\ End(w, "delete_clinic")
    /\ \E o \in delete_clinic_commit(pending[w].c) : clinics' = o.rows
    /\ UNCHANGED <<doctors, patients, consultations, users, now, held, issued>>

delete_doctor_begin(w, c, d) ==
    /\ delete_doctor_reads(c, d) = Proceed
    /\ Begin(w, [op |-> "delete_doctor", d |-> d])
    /\ UNCHANGED <<store, now, held, issued>>

delete_doctor_end(w) ==
    /\ End(w, "delete_doctor")
    /\ \E o \in delete_doctor_commit(pending[w].d) : doctors' = o.rows
    /\ UNCHANGED <<clinics, patients, consultations, users, now, held, issued>>

create_doctor_begin(w, c, row) ==
    /\ create_doctor_reads(c) = Proceed
    /\ Begin(w, [op |-> "create_doctor", c |-> c, row |-> row])
    /\ UNCHANGED <<store, now, held, issued>>

create_doctor_end(w) ==
    /\ End(w, "create_doctor")
    /\ \E o \in create_doctor_commit(pending[w].c, pending[w].row) :
          /\ DOMAIN o.rows \subseteq DoctorIds
          /\ Succeeded(o) => RowCount < MaxRows
          /\ doctors' = o.rows
    /\ UNCHANGED <<clinics, patients, consultations, users, now, held, issued>>

create_patient_begin(w, c, d, row) ==
    /\ create_patient_reads(c, d) = Proceed
    /\ Begin(w, [op |-> "create_patient", c |-> c, d |-> d, row |-> row])
    /\ UNCHANGED <<store, now, held, issued>>

create_patient_end(w) ==
    /\ End(w, "create_patient")
    /\ \E o \in create_patient_commit(pending[w].c, pending[w].d, pending[w].row) :
          /\ DOMAIN o.rows \subseteq PatientIds
          /\ Succeeded(o) => RowCount < MaxRows
          /\ patients' = o.rows
    /\ UNCHANGED <<clinics, doctors, consultations, users, now, held, issued>>

create_doctor_patient_consultation_begin(w, c, d, p) ==
    /\ create_doctor_patient_consultation_reads(c, d, p) = Proceed
    /\ Begin(w, [op |-> "create_consultation", c |-> c, d |-> d, p |-> p])
    /\ UNCHANGED <<store, now, held, issued>>

create_doctor_patient_consultation_end(w) ==
    /\ End(w, "create_consultation")
    /\ \E o \in create_doctor_patient_consultation_commit(pending[w].c, pending[w].d,
                                                         pending[w].p) :
          /\ DOMAIN o.rows \subseteq Ids
          /\ Succeeded(o) => RowCount < MaxRows
          /\ consultations' = o.rows
    /\ UNCHANGED <<clinics, doctors, patients, users, now, held, issued>>

\* The bodies the concurrent creations send.
RaceDoctorRows == {[mobile |-> "m1", email |-> "e1", status |-> "active"],
                   [mobile |-> "m2", email |-> "e2", status |-> "active"]}
RacePatientRows == {[mobile |-> "m1", status |-> "active"]}

NextRace ==
    \/ \E row \in ClinicRows : create_clinic(row)
    \/ \E w \in Workers, c \in ClinicIds : delete_clinic_begin(w, c)
    \/ \E w \in Workers : delete_clinic_end(w)
    \/ \E w \in Workers, c \in ClinicIds, d \in DoctorIds : delete_doctor_begin(w, c, d)
    \/ \E w \in Workers : delete_doctor_end(w)
    \/ \E w \in Workers, c \in ClinicIds, row \in RaceDoctorRows : create_doctor_begin(w, c, row)
    \/ \E w \in Workers : create_doctor_end(w)
    \/ \E w \in Workers, c \in ClinicIds, d \in DoctorIds, row \in RacePatientRows :
          create_patient_begin(w, c, d, row)
    \/ \E w \in Workers : create_patient_end(w)
    \/ \E w \in Workers, c \in ClinicIds, d \in DoctorIds, p \in PatientIds :
          create_doctor_patient_consultation_begin(w, c, d, p)
    \/ \E w \in Workers : create_doctor_patient_consultation_end(w)

SpecRace == Init /\ [][NextRace]_vars

(***************************************************************************)
(* Identity resolution.  register_user stores only active users of role    *)
(* 'user'; the rows of other roles and the inactive ones are written to    *)
(* the table by its administrator, so the specification starts from every  *)
(* table the columns of User allow (email is the one unique column).       *)
(***************************************************************************)
UserRows == [username : Usernames, email : Emails,
             hashed_password : {bcrypt_hashpw(Secret123, <<65>>)},
             role : Roles, is_active : BOOLEAN]

UserTables ==
    {table \in UNION {[1..n -> UserRows] : n \in 0..MaxUsers} :
        \A i \in DOMAIN table, j \in DOMAIN table : table[i].email = table[j].email => i = j}

InitIdentity ==
    /\ clinics = <<>>
    /\ doctors = <<>>
    /\ patients = <<>>
    /\ consultations = <<>>
    /\ users \in UserTables
    /\ now = 0
    /\ held = NoToken
    /\ issued = NoToken
    /\ pending = [w \in Workers |-> Idle]

NextIdentity ==
    \/ \E sub \in Subjects, role \in Roles : issue(sub, role, {1})
    \/ tamper_signature
    \/ \E role \in Roles : tamper_payload(role)
    \/ \E sub \in Subjects, role \in Roles : forge(sub, role)
    \/ \E kind \in {"none", "malformed"} : garble(kind)
    \/ Tick(1)

SpecIdentity == InitIdentity /\ [][NextIdentity]_vars

(***************************************************************************)
(* Claims about the API run one request at a time (Spec).                  *)
(***************************************************************************)
DoctorsOf(c) == {i \in DOMAIN doctors : doctors[i].clinic_id = c}
PatientsOf(c) == {i \in DOMAIN patients : patients[i].clinic_id = c}
PatientsWith(d) == {i \in DOMAIN patients : patients[i].doctor_id = d}
ConsultationsWith(d) == {i \in DOMAIN consultations : consultations[i].doctor_id = d}

\* The failure kind of a response: its status code and the text of its
\* detail, without the id or count the text is formatted with.
Kind(response) == <<response.status, response.detail[1]>>

\* C2: in every state reachable by the API's operations run one at a time,
\* every doctor's clinic_id names an existing clinic and every patient's
\* clinic_id and doctor_id name an existing clinic and an existing doctor.
C2_ReferencesExist ==
    /\ \A i \in DOMAIN doctors : doctors[i].clinic_id \in DOMAIN clinics
    /\ \A i \in DOMAIN patients :
           /\ patients[i].clinic_id \in DOMAIN clinics
           /\ patients[i].doctor_id \in DOMAIN doctors

\* C5: delete_clinic on an existing clinic removes it and returns 204 when no
\* doctor and no patient has its clinic_id; when a doctor or a patient has
\* it, the request is refused with 400 and the count of the dependents, and
\* the table of clinics is as before.
C5_DeleteClinicGuarded ==
    \A c \in DOMAIN clinics : \A o \in delete_clinic_outcomes(c) :
        IF DoctorsOf(c) = {} /\ PatientsOf(c) = {}
        THEN o.resp = NoContent /\ o.rows = Remove(clinics, c)
        ELSE /\ o.rows = clinics
             /\ o.resp = IF DoctorsOf(c) # {}
                         THEN ClinicHasDoctors(Cardinality(DoctorsOf(c)))
                         ELSE ClinicHasPatients(Cardinality(PatientsOf(c)))

\* C5 witness: clinic 1 has been deleted, and clinic 2 has a doctor or a
\* patient, so that deleting it is refused.
C5_Witness ==
    /\ 1 \notin DOMAIN clinics
    /\ 2 \in DOMAIN clinics
    /\ DoctorsOf(2) \cup PatientsOf(2) # {}
    /\ \A o \in delete_clinic_outcomes(2) : o.resp.status = 400

\* C6: delete_doctor, asked for a doctor under the doctor's clinic, removes
\* the doctor and returns 204 when no patient and no consultation has its
\* doctor_id; when one has, the request is refused with 400 and the count,
\* and the table of doctors is as before.  Under no clinic_id does it
\* remove a doctor that a patient or a consultation names.
C6_DeleteDoctorGuarded ==
    \A d \in DOMAIN doctors :
        /\ \A o \in delete_doctor_outcomes(doctors[d].clinic_id, d) :
              IF PatientsWith(d) = {} /\ ConsultationsWith(d) = {}
              THEN o.resp = NoContent /\ o.rows = Remove(doctors, d)
              ELSE /\ o.rows = doctors
                   /\ o.resp = IF PatientsWith(d) # {}
                               THEN DoctorHasPatients(Cardinality(PatientsWith(d)))
                               ELSE DoctorHasConsultations(Cardinality(ConsultationsWith(d)))
        /\ \A c \in ClinicIds : \A o \in delete_doctor_outcomes(c, d) :
              d \notin DOMAIN o.rows => PatientsWith(d) = {} /\ ConsultationsWith(d) = {}

\* C6 witness: doctor 1 has been deleted, and doctor 2 is named by a
\* consultation and by no patient, so that deleting it is refused.
C6_Witness ==
    /\ 1 \notin DOMAIN doctors
    /\ 2 \in DOMAIN doctors
    /\ PatientsWith(2) = {}
    /\ ConsultationsWith(2) # {}
    /\ \A o \in delete_doctor_outcomes(doctors[2].clinic_id, 2) : o.resp.status = 400

ConsultationAllowed(c, d, p) ==
    /\ c \in DOMAIN clinics
    /\ d \in DOMAIN doctors /\ doctors[d].clinic_id = c
    /\ p \in DOMAIN patients /\ patients[p].clinic_id = c
    /\ doctors[d].status = "active"
    /\ patients[p].status = "active"

\* C7: create_doctor_patient_consultation adds a consultation exactly in the
\* states where the clinic exists, the doctor and the patient exist with the
\* stated clinic_id and both have status 'active'; in every other state it
\* answers 404 or 400 and the table of consultations is as before.
C7_ConsultationGuarded ==
    \A c \in ClinicIds, d \in DoctorIds, p \in PatientIds :
        \A o \in create_doctor_patient_consultation_outcomes(c, d, p) :
            IF ConsultationAllowed(c, d, p)
            THEN /\ o.resp.status = 201
                 /\ o.rows = Insert(consultations,
                        [clinic_id |-> c, doctor_id |-> d, patient_id |-> p])
            ELSE o.resp.status \in {400, 404} /\ o.rows = consultations

\* C7 witness: a consultation has been created, and its patient has since
\* been made inactive, so that a second one is refused.
C7_Witness ==
    \E i \in DOMAIN consultations :
        LET k == consultations[i]
        IN  /\ k.patient_id \in DOMAIN patients
            /\ patients[k.patient_id].status = "inactive"
            /\ \A o \in create_doctor_patient_consultation_outcomes(
                            k.clinic_id, k.doctor_id, k.patient_id) : o.resp = PatientNotActive

\* C8: create_patient under clinic c with the doctor_id of a doctor of another
\* clinic adds no patient and fails with a kind of its own, different from
\* the kind it fails with when the clinic or the doctor does not exist.
C8_CrossTenantDistinct ==
    \A c \in DOMAIN clinics, d \in DOMAIN doctors, row \in PatientRows :
        doctors[d].clinic_id # c =>
            \A o \in create_patient_outcomes(c, d, row) :
                /\ o.rows = patients
                /\ \A c2 \in ClinicIds \ DOMAIN clinics :
                       \A o2 \in create_patient_outcomes(c2, d, row) :
                           Kind(o.resp) # Kind(o2.resp)
                /\ \A d2 \in DoctorIds \ DOMAIN doctors :
                       \A o2 \in create_patient_outcomes(c, d2, row) :
                           Kind(o.resp) # Kind(o2.resp)

(***************************************************************************)
(* Claims about the tokens (SpecToken, SpecGate).                          *)
(***************************************************************************)
Signed(token) == token.kind = "jwt" /\ token.sig = Sign(token.payload, SECRET_KEY)

\* C1: no step changes a table of clinics, doctors, patients or consultations
\* unless the token of the request passes verify_token and get_current_user
\* resolves it to an active user; with no token or an invalid one the tables
\* stay as they are.
C1_WritesAreAuthenticated ==
    [][<<clinics, doctors, patients, consultations>>'
          # <<clinics, doctors, patients, consultations>>
       => ~IsResponse(get_current_user(held, now))]_vars

\* C3: verify_token returns a payload only for a token signed with SECRET_KEY
\* whose expiry is later than the time of the call; for a token with an
\* altered signature, a malformed token or a token whose expiry has passed
\* it answers 401 'Could not validate credentials' and returns no payload.
C3_AcceptsOnlySignedUnexpired ==
    /\ ~IsResponse(verify_token(held, now)) => Signed(held) /\ held.payload.exp > now
    /\ (~Signed(held) \/ held.payload.exp < now) => verify_token(held, now) = CouldNotValidate

\* C4: the token create_access_token made for a subject, a role and a ttl is,
\* at the instant of issuance, verified to that subject and role, and at
\* every instant later than issuance + ttl it is refused with 401.
C4_RoundTripThenExpiry ==
    (/\ issued # NoToken
     /\ issued.data.sub # Null
     /\ issued.delta # {}
     /\ held = create_access_token(issued.data, issued.delta, issued.at))
    => LET ttl == CHOOSE n \in issued.delta : TRUE
           result == verify_token(held, now)
       IN  /\ now = issued.at =>
                 /\ ~IsResponse(result)
                 /\ result.sub = issued.data.sub
                 /\ result.role = issued.data.role
           /\ now > issued.at + ttl => result = CouldNotValidate

(***************************************************************************)
(* Claims about concurrent requests (SpecRegister, SpecRace).              *)
(***************************************************************************)
\* C9: whatever the interleaving of the reads and commits of concurrent
\* register_user requests, no two rows of users have the same username.
C9_UsernameUnique ==
    \A i \in DOMAIN users, j \in DOMAIN users :
        users[i].username = users[j].username => i = j

\* C10: when the concurrent deletions and creations have all committed or
\* failed, no doctor, patient or consultation names a clinic, doctor or
\* patient that is missing.
C10_NoOrphanAfterRace ==
    AllIdle =>
        /\ \A i \in DOMAIN doctors : doctors[i].clinic_id \in DOMAIN clinics
        /\ \A i \in DOMAIN patients :
               patients[i].clinic_id \in DOMAIN clinics /\ patients[i].doctor_id \in DOMAIN doctors
        /\ \A i \in DOMAIN consultations :
               /\ consultations[i].clinic_id \in DOMAIN clinics
               /\ consultations[i].doctor_id \in DOMAIN doctors
               /\ consultations[i].patient_id \in DOMAIN patients

(***************************************************************************)
(* Claims about errors and uniqueness.                                     *)
(***************************************************************************)
Unchanged(outcomes, table) == \A o \in outcomes : ~Succeeded(o) => o.rows = table

\* C11: every request to a mutating handler that is answered with an error,
\* from a check, from a constraint at commit or from an unexpected fault,
\* leaves the rows of the table it writes exactly as they were; update_patient
\* and delete_patient included.
C11_ErrorsChangeNothing ==
    /\ \A user \in UserCreates : Unchanged(register_user_outcomes(user), users)
    /\ \A row \in ClinicRows : Unchanged(create_clinic_outcomes(row), clinics)
    /\ \A c \in ClinicIds :
          /\ \A upd \in ClinicUpdates : Unchanged(update_clinic_outcomes(c, upd), clinics)
          /\ Unchanged(delete_clinic_outcomes(c), clinics)
          /\ \A row \in DoctorRows : Unchanged(create_doctor_outcomes(c, row), doctors)
          /\ \A d \in DoctorIds :
                /\ \A upd \in DoctorUpdates : Unchanged(update_doctor_outcomes(c, d, upd), doctors)
                /\ Unchanged(delete_doctor_outcomes(c, d), doctors)
                /\ \A row \in PatientRows : Unchanged(create_patient_outcomes(c, d, row), patients)
                /\ \A p \in PatientIds :
                      Unchanged(create_doctor_patient_consultation_outcomes(c, d, p),
                                consultations)
          /\ \A p \in PatientIds :
                /\ \A upd \in PatientUpdates : Unchanged(update_patient_outcomes(c, p, upd), patients)
                /\ Unchanged(delete_patient_outcomes(c, p), patients)

Unique(table, field) ==
    \A i \in DOMAIN table, j \in DOMAIN table : table[i][field] = table[j][field] => i = j

DuplicateValue == {MobileExists, EmailExists, UsernameRegistered, EmailRegistered, UserEmailExists}

Refused(outcomes, table) == \A o \in outcomes : o.resp \in DuplicateValue /\ o.rows = table

\* C12: no two clinics share a mobile, no two doctors a mobile or an email, no
\* two patients a mobile and no two users an email; and a create or an update
\* that passes the handler's lookups and would store such a duplicate is
\* answered with the handler's duplicate-value error and changes nothing.
C12_UniqueFields ==
    /\ Unique(clinics, "mobile") /\ Unique(doctors, "mobile") /\ Unique(doctors, "email")
    /\ Unique(patients, "mobile") /\ Unique(users, "email")
    /\ \A row \in ClinicRows :
          Taken(clinics, "mobile", row.mobile, 0) => Refused(create_clinic_outcomes(row), clinics)
    /\ \A c \in DOMAIN clinics :
          /\ \A upd \in ClinicUpdates :
                Taken(clinics, "mobile", upd.mobile, c)
                => Refused(update_clinic_outcomes(c, upd), clinics)
          /\ \A row \in DoctorRows :
                (Taken(doctors, "mobile", row.mobile, 0) \/ Taken(doctors, "email", row.email, 0))
                => Refused(create_doctor_outcomes(c, row), doctors)
          /\ \A d \in DoctorsOf(c) :
                /\ \A upd \in DoctorUpdates :
                      (Taken(doctors, "mobile", upd.mobile, d) \/ Taken(doctors, "email", upd.email, d))
                      => Refused(update_doctor_outcomes(c, d, upd), doctors)
                /\ \A row \in PatientRows :
                      Taken(patients, "mobile", row.mobile, 0)
                      => Refused(create_patient_outcomes(c, d, row), patients)
          /\ \A p \in PatientsOf(c) : \A upd \in PatientUpdates :
                Taken(patients, "mobile", upd.mobile, p)
                => Refused(update_patient_outcomes(c, p, upd), patients)

(***************************************************************************)
(* Claims about identity resolution (SpecIdentity).                        *)
(***************************************************************************)
Verifies(token, t) == token # NoToken /\ ~IsResponse(verify_token(token, t))

Matching(sub) == {i \in DOMAIN users : users[i].username = sub}

\* C13: for a token that verifies, get_current_user answers 401 'User not
\* Found' when no user has the token's subject as username, 400 'Inactive
\* user' when the users of that name are inactive, and otherwise returns an
\* active user of that name; for a token that does not verify it returns the
\* failure of the verification and never a user.
C13_ResolveUser ==
    LET result == get_current_user(held, now)
    IN  IF Verifies(held, now)
        THEN LET found == Matching(held.payload.sub)
             IN  /\ found = {} => result = UserNotFound
                 /\ (found # {} /\ \A i \in found : ~users[i].is_active) => result = InactiveUser
                 /\ (found # {} /\ \A i \in found : users[i].is_active) =>
                        \E i \in found : result = users[i]
                 /\ found # {} =>
                        \/ result = InactiveUser /\ \E i \in found : ~users[i].is_active
                        \/ \E i \in found : users[i].is_active /\ result = users[i]
        ELSE result \in {NotAuthenticated, CouldNotValidate}

\* C13 witness: the token verifies, its subject is the username of an
\* inactive user, and the request is refused as inactive.
C13_Witness ==
    /\ Verifies(held, now)
    /\ \E i \in DOMAIN users : users[i].username = held.payload.sub /\ ~users[i].is_active
    /\ get_current_user(held, now) = InactiveUser

\* C14: require_admin answers 403 exactly when get_current_user returned a
\* user whose role is not 'admin', and returns the user when it is; when
\* get_current_user failed (no or invalid token, no such user, inactive user)
\* the answer is that failure and never 403.
C14_AdminAfterResolution ==
    LET current_user == get_current_user(held, now)
        result == require_admin(held, now)
    IN  IF IsResponse(current_user)
        THEN result = current_user /\ result # NotEnoughPermissions
        ELSE /\ current_user.role # "admin" <=> result = NotEnoughPermissions
             /\ current_user.role = "admin" => result = current_user

\* C14 witness: the token verifies and names an inactive user whose role is
\* not 'admin'; the request is refused as inactive, not with 403.
C14_Witness ==
    /\ Verifies(held, now)
    /\ \A i \in Matching(held.payload.sub) : ~users[i].is_active /\ users[i].role # "admin"
    /\ Matching(held.payload.sub) # {}
    /\ require_admin(held, now) = InactiveUser

(***************************************************************************)
(* More claims about the API run one request at a time (Spec).             *)
(***************************************************************************)
\* C15: create_doctor_patient_consultation for a doctor of the stated clinic
\* whose status is not 'active' and a patient of that clinic is answered 400
\* 'Doctor is not active', whether the patient's status is 'active' or not,
\* and adds no consultation.
C15_InactiveDoctorRefused ==
    \A c \in DOMAIN clinics : \A d \in DoctorsOf(c) : \A p \in PatientsOf(c) :
        doctors[d].status # "active" =>
            \A o \in create_doctor_patient_consultation_outcomes(c, d, p) :
                o.resp = DoctorNotActive /\ o.rows = consultations

\* C15 witness: a clinic has a doctor that is not active and two patients,
\* one active and one not; both consultations are refused.
C15_Witness ==
    \E c \in DOMAIN clinics : \E d \in DoctorsOf(c) : \E p \in PatientsOf(c), q \in PatientsOf(c) :
        /\ doctors[d].status = "inactive"
        /\ patients[p].status = "active"
        /\ patients[q].status = "inactive"
        /\ \A o \in create_doctor_patient_consultation_outcomes(c, d, p)
                     \cup create_doctor_patient_consultation_outcomes(c, d, q) :
              o.resp.status = 400

\* C16: create_doctor under a clinic_id that no clinic has is answered 404
\* 'Clinic with id ... not found' and adds no doctor; under an existing clinic,
\* with a mobile and an email no doctor has, it is answered 201 and adds
\* exactly one doctor, of the stated clinic and with the fields of the body.
C16_CreateDoctorUnderClinic ==
    \A c \in ClinicIds, row \in DoctorRows : \A o \in create_doctor_outcomes(c, row) :
        IF c \notin DOMAIN clinics
        THEN o.resp = ClinicNotFound(c) /\ o.rows = doctors
        ELSE DoctorConflicts(row.mobile, row.email, 0) = {} =>
                /\ o.resp.status = 201
                /\ \E id \in DOMAIN o.rows \ DOMAIN doctors :
                      /\ DOMAIN o.rows = DOMAIN doctors \cup {id}
                      /\ o.rows[id] = [mobile |-> row.mobile, email |-> row.email,
                                       status |-> row.status, clinic_id |-> c]
                /\ \A i \in DOMAIN doctors : o.rows[i] = doctors[i]

\* C16 witness: clinic 2 has a doctor, created under it, and there is no
\* clinic 1, so that a doctor under clinic 1 is refused.
C16_Witness ==
    /\ 1 \notin DOMAIN clinics
    /\ DoctorsOf(2) # {}
    /\ 2 \in DOMAIN clinics
    /\ \A row \in DoctorRows : \A o \in create_doctor_outcomes(1, row) : o.resp.status = 404

(***************************************************************************)
(* Claims about passwords (SpecRegister).                                  *)
(***************************************************************************)
\* C17: for all passwords p and q, hash_password(p) returns a hash under
\* which verify_password accepts p, verify_password does not accept p under
\* a hash of q when p # q, and the hashed_password that register_user stores
\* is not the password of the request.
C17_PasswordRoundTrip ==
    /\ \A password \in Passwords, salt \in Salts, build \in Builds :
          /\ ~hash_password(password, salt, build).raised
          /\ verify_password(password, hash_password(password, salt, build).value, build)
                = Returned(TRUE)
    /\ \A password \in Passwords, other \in Passwords, salt \in Salts, build \in Builds :
              (other # password /\ ~hash_password(other, salt, build).raised) =>
                  verify_password(password, hash_password(other, salt, build).value, build)
                      # Returned(TRUE)
    /\ \A user \in UserCreates : \A o \in register_user_outcomes(user) :
          \A i \in DOMAIN o.rows \ DOMAIN users : o.rows[i].hashed_password # user.password

(***************************************************************************)
(* More claims about the tokens (SpecToken).                               *)
(***************************************************************************)
\* C18: verify_token refuses a token that is signed with SECRET_KEY, not
\* expired and without a subject, with a response that differs from the one
\* it gives for a malformed token and for a token whose signature was altered.
C18_MissingSubjectDistinct ==
    (Signed(held) /\ held.payload.exp >= now /\ held.payload.sub = Null) =>
        /\ IsResponse(verify_token(held, now))
        /\ verify_token(held, now) # verify_token([kind |-> "malformed"], now)
        /\ verify_token(held, now) # verify_token([held EXCEPT !.sig.key = "altered"], now)

\* C19: the exp of the token create_access_token returns is the instant of
\* the call plus the ttl for every ttl the caller gives, zero included, and
\* the instant of the call plus 15 minutes only when the caller gives none.
C19_ExpiryIsIssuancePlusTtl ==
    (issued # NoToken /\ held = create_access_token(issued.data, issued.delta, issued.at)) =>
        held.payload.exp = issued.at + (IF issued.delta = {} THEN DefaultExpireSeconds
                                        ELSE CHOOSE n \in issued.delta : TRUE)

(***************************************************************************)
(* Claims about the references of consultations (Spec).                    *)
(***************************************************************************)
\* C20: in every state reached by the API's operations run one at a time,
\* the doctor_id of every consultation is the id of a doctor and its
\* clinic_id the id of a clinic.
C20_ConsultationDoctorAndClinicExist ==
    \A i \in DOMAIN consultations :
        /\ consultations[i].doctor_id \in DOMAIN doctors
        /\ consultations[i].clinic_id \in DOMAIN clinics

\* C20 witness: a consultation whose patient has been moved to another
\* doctor_id, so that the consultation alone names its doctor; the deletion
\* of that doctor and of the clinic are both refused.
C20_Witness ==
    \E i \in DOMAIN consultations :
        LET k == consultations[i]
        IN  /\ PatientsWith(k.doctor_id) = {}
            /\ \A o \in delete_doctor_outcomes(k.clinic_id, k.doctor_id) : o.resp.status = 400
            /\ \A o \in delete_clinic_outcomes(k.clinic_id) : o.resp.status = 400

(***************************************************************************)
(* Claims about the references and the frame of the rows (Spec).           *)
(***************************************************************************)
\* C21: in every state reachable by the API's operations run one at a time,
\* every consultation's patient_id names an existing patient, and
\* delete_patient on a patient that a consultation names fails and leaves the
\* patient in the table.
C21_ConsultationPatientExists ==
    /\ \A i \in DOMAIN consultations : consultations[i].patient_id \in DOMAIN patients
    /\ \A c \in ClinicIds, p \in PatientIds :
           PatientChildren(p) =>
               \A o \in delete_patient_outcomes(c, p) :
                   ~Succeeded(o) /\ o.rows = patients

\* A consultation names a patient, and a delete_patient request for that
\* patient passes the lookups and is refused at the commit.
C21_Witness ==
    \E i \in DOMAIN consultations, c \in ClinicIds :
        /\ delete_patient_reads(c, consultations[i].patient_id) = Proceed
        /\ delete_patient_outcomes(c, consultations[i].patient_id)
               = {Outcome(InternalServerError, patients)}

\* C22: in every state reachable by create_patient and update_patient, the
\* doctor of every patient has the clinic_id of the patient.
C22_PatientDoctorSameClinic ==
    \A i \in DOMAIN patients :
        patients[i].doctor_id \in DOMAIN doctors =>
            doctors[patients[i].doctor_id].clinic_id = patients[i].clinic_id

(***************************************************************************)
(* Claims about the users the API creates (SpecGate) and about the role    *)
(* that decides (SpecIdentity).                                            *)
(***************************************************************************)
\* C23: every user that register_user creates has role 'user' and is
\* active, no operation changes or removes a user afterwards, and
\* require_admin answers 403 for every user that get_current_user resolves.
C23_NoAdminThroughApi ==
    /\ [](\A i \in DOMAIN users : users[i].role = "user" /\ users[i].is_active)
    /\ [](\A user \in UserCreates : \A o \in register_user_outcomes(user) :
              \A i \in DOMAIN o.rows \ DOMAIN users :
                  o.rows[i].role = "user" /\ o.rows[i].is_active)
    /\ [](~IsResponse(get_current_user(held, now)) =>
              require_admin(held, now) = NotEnoughPermissions)
    /\ [][\A i \in DOMAIN users : i \in DOMAIN users' /\ users'[i] = users[i]]_vars

\* The client's token resolves to a registered user, and require_admin
\* refuses the request.
C23_Witness ==
    /\ ~IsResponse(get_current_user(held, now))
    /\ get_current_user(held, now) \in {users[i] : i \in DOMAIN users}
    /\ require_admin(held, now) = NotEnoughPermissions

\* The token with its role claim replaced and signed again by the server.
Reissued(token, role) == jwt_encode([token.payload EXCEPT !.role = role], SECRET_KEY)

\* C24: two validly signed tokens that differ only in the role claim get the
\* same answer from require_admin, and a token with role claim 'admin' whose
\* subject resolves to a user stored with role 'user' is answered 403.
C24_RoleOfRecordDecides ==
    Signed(held) =>
        /\ \A role \in Roles :
               require_admin(Reissued(held, role), now) = require_admin(held, now)
        /\ \A role \in Roles :
               LET current_user == get_current_user(Reissued(held, role), now)
               IN  (~IsResponse(current_user) /\ current_user.role = "user") =>
                       require_admin(Reissued(held, role), now) = NotEnoughPermissions

\* The client holds a signed, unexpired token with role claim 'admin' whose
\* subject is an active user stored with role 'user', and is refused.
C24_Witness ==
    /\ Verifies(held, now)
    /\ held.payload.role = "admin"
    /\ ~IsResponse(get_current_user(held, now))
    /\ get_current_user(held, now).role = "user"
    /\ require_admin(held, now) = NotEnoughPermissions

(***************************************************************************)
(* The frame of the operations (Spec).                                     *)
(***************************************************************************)
\* The ids whose row is added, removed or different in the second table.
Differing(table, other) ==
    {i \in DOMAIN table \cup DOMAIN other :
        \/ i \notin DOMAIN table
        \/ i \notin DOMAIN other
        \/ table[i] # other[i]}

\* At most one row is added, removed or different in the second table.
OneRow(table, other) ==
    \A i \in Differing(table, other), j \in Differing(table, other) : i = j

\* Every row of both tables has the same clinic_id in both.
SameClinic(table, other) ==
    \A i \in DOMAIN table \cap DOMAIN other : other[i].clinic_id = table[i].clinic_id

\* C25: no step of any operation changes the clinic_id of an existing
\* doctor, patient or consultation: update_doctor and update_patient, taken
\* with every combination of update fields, keep the id and the clinic_id of
\* the row; and every step adds, removes or changes at most one row of one
\* table and leaves every other row as it was.
C25_Frame ==
    [][\/ /\ UNCHANGED <<doctors, patients, consultations>>
          /\ OneRow(clinics, clinics')
       \/ /\ UNCHANGED <<clinics, patients, consultations>>
          /\ OneRow(doctors, doctors')
          /\ SameClinic(doctors, doctors')
       \/ /\ UNCHANGED <<clinics, doctors, consultations>>
          /\ OneRow(patients, patients')
          /\ SameClinic(patients, patients')
       \/ /\ UNCHANGED <<clinics, doctors, patients>>
          /\ OneRow(consultations, consultations')
          /\ SameClinic(consultations, consultations')]_vars

\* Two patients are stored, and an update_patient request that names
\* another doctor changes the doctor_id of one of them.
C25_Witness ==
    /\ Cardinality(DOMAIN patients) >= 2
    /\ \E c \in ClinicIds, p \in PatientIds, upd \in PatientUpdates :
           /\ upd.doctor_id # {}
           /\ \E o \in update_patient_outcomes(c, p, upd) :
                  Succeeded(o) /\ o.rows[p].doctor_id # patients[p].doctor_id

============================================================================
